---- MODULE Spec2Model ----
(***************************************************************************)
(* The leaderboard client (src/src/App.jsx, rendered by src/unnamed/       *)
(* part_000 under React.StrictMode) together with the engine it talks to.  *)
(* The client's React state, its handlers and the continuations that run   *)
(* when an awaited HTTP response or a socket event arrives are translated  *)
(* from App.jsx.  The engine (ranking table, claim ledger, claim           *)
(* processor, update broadcaster) has no code in this repository; it is    *)
(* modelled from spec.md sections 3 to 7.                                  *)
(***************************************************************************)
EXTENDS Integers, Sequences, FiniteSets, Bags, TLC

VARIABLES
    \* ---- engine (spec.md section 3) ----
    participants,   \* registration-ordered sequence of [username, totalPoints]; _id = index
    ledger,         \* append-only sequence of ClaimRecord; _id = sequence number = index
    okClaims,       \* number of claim calls the engine answered with success
    \* ---- transport ----
    http,           \* bag of this client's HTTP requests that have not been answered to it yet
    pushQ,          \* 'leaderboard_update' events in flight to this client's socket, in commit order
    sock,           \* "none" | "connecting" | "connected": the socket.io connection
    sockFailed,     \* the subscription has failed (connect_error or disconnect) at least once
    \* ---- React state of App (App.jsx lines 19-25) ----
    users, selectedUserId, newUserName, message, loading, error, claimHistory,
    mounted,        \* the mount effect has run
    timers,         \* pending setTimeout(() => setMessage(""), 2000) callbacks
    \* ---- exploration budgets ----
    clicks,         \* button clicks made so far
    faults,         \* transport and connection failures so far
    budget          \* [mutations, clicks, faults]: where exploration stops; never changes

vars == <<participants, ledger, okClaims, http, pushQ, sock, sockFailed,
          users, selectedUserId, newUserName, message, loading, error,
          claimHistory, mounted, timers, clicks, faults, budget>>

engineVars == <<participants, ledger, okClaims>>
reactVars == <<users, selectedUserId, newUserName, message, loading, error,
               claimHistory, timers>>
budgetVars == <<clicks, faults, budget>>

\* ---------------------------------------------------------------- bounds
MaxAward == 2       \* the award policy draws from 1..MaxAward

Awards == 1..MaxAward

\* Names typed into the input, as sequences of characters, so that trim() is
\* computed and not assumed: empty, whitespace only, and a name with a
\* trailing blank.
Names == { <<>>, <<" ">>, <<"C", " ">> }
\* Names other clients register with.
OtherNames == { <<>>, <<"D">> }

\* setSelectedUserId("") is modelled as 0; participant identifiers are 1, 2, ...
NoUser == 0

Min(a, b) == IF a < b THEN a ELSE b

\* ------------------------------------------------------- engine (spec.md)
\* The engine has no code under src/: these definitions follow spec.md.

\* RankingSnapshot order (section 3): total points descending, ties broken by
\* earliest registration (the smaller _id).
Before(a, b) ==
    \/ a.totalPoints > b.totalPoints
    \/ (a.totalPoints = b.totalPoints /\ a._id < b._id)

RECURSIVE Insert(_, _)
Insert(u, s) ==
    IF s = <<>> THEN <<u>>
    ELSE IF Before(u, Head(s)) THEN <<u>> \o s
    ELSE <<Head(s)>> \o Insert(u, Tail(s))

RECURSIVE SortFrom(_, _)
SortFrom(ps, i) ==
    IF i > Len(ps) THEN <<>>
    ELSE Insert([_id |-> i, username |-> ps[i].username,
                 totalPoints |-> ps[i].totalPoints],
                SortFrom(ps, i + 1))

\* getSnapshot() / listParticipants() (sections 4.1, 6): what GET /users returns.
SnapshotOf(ps) == SortFrom(ps, 1)
getSnapshot == SnapshotOf(participants)

RECURSIVE Reverse(_)
Reverse(s) == IF s = <<>> THEN <<>> ELSE Reverse(Tail(s)) \o <<Head(s)>>

\* history() / listHistory (sections 4.2, 6): newest first; what GET
\* /claims/history returns.
history == Reverse(ledger)

\* registerParticipant(name) (sections 6, 7): ValidationError on an empty name,
\* no mutation.
registerParticipant(ps, name) ==
    IF name = <<>>
    THEN [err |-> "ValidationError", participants |-> ps]
    ELSE [err |-> "",
          participants |-> Append(ps, [username |-> name, totalPoints |-> 0])]

\* A faulty variant of claim: a lost update, the total is written from a stale
\* read of 0.
claimLost(ps, lg, id, pts) ==
    IF id \notin DOMAIN ps
    THEN [err |-> "NotFoundError", participants |-> ps, ledger |-> lg]
    ELSE [err |-> "",
          participants |-> [ps EXCEPT ![id].totalPoints = pts],
          ledger |-> Append(lg, [_id |-> Len(lg) + 1, userId |-> id,
                                 pointsClaimed |-> pts])]

\* claim(participantId) (section 4.3) with the award policy's draw pts, as one
\* atomic unit: NotFoundError and no mutation for an unknown participant, else
\* the total is raised and one ClaimRecord is appended with the next sequence
\* number.
claim(ps, lg, id, pts) ==
    IF id \notin DOMAIN ps
    THEN [err |-> "NotFoundError", participants |-> ps, ledger |-> lg]
    ELSE [err |-> "",
          participants |->
              [ps EXCEPT ![id].totalPoints = ps[id].totalPoints + pts],
          ledger |-> Append(lg, [_id |-> Len(lg) + 1, userId |-> id,
                                 pointsClaimed |-> pts])]

\* publish(snapshot, record) (section 4.4): the new snapshot is queued for the
\* subscriber while its connection is up; a disconnected subscriber gets
\* nothing.
publish(ps) == IF sock = "connected" THEN Append(pushQ, SnapshotOf(ps)) ELSE pushQ

\* ------------------------------------------------------------- transport
\* One HTTP request of this client.  phase: "sent" (not yet answered by the
\* engine), "ok" / "err" (answer on its way back).  Every field is always
\* present so that requests of different kinds compare.
Req(kind, userId, username) ==
    [kind |-> kind, phase |-> "sent", userId |-> userId, username |-> username,
     users |-> <<>>, history |-> <<>>, msg |-> ""]

Send(h, m) == h (+) SetToBag({m})
Take(h, m) == h (-) SetToBag({m})
InFlight(h) == BagToSet(h)
Count(h, kind) ==
    LET ms == {m \in BagToSet(h) : m.kind = kind}
        RECURSIVE Sum(_)
        Sum(S) == IF S = {} THEN 0
                  ELSE LET m == CHOOSE x \in S : TRUE
                       IN CopiesIn(m, h) + Sum(S \ {m})
    IN Sum(ms)

\* ---------------------------------------------------------- client, pure
\* String.prototype.trim on a sequence of characters (App.jsx line 70).
RECURSIVE TrimLeft(_)
TrimLeft(n) ==
    IF n # <<>> /\ Head(n) = " " THEN TrimLeft(Tail(n)) ELSE n

trim(n) == Reverse(TrimLeft(Reverse(TrimLeft(n))))

\* The message banner: text plus the name interpolated into it (line 80).
Msg(text, name) == [text |-> text, name |-> name]
NoMessage == Msg("", <<>>)

\* users.slice(0, 3) and users.slice(3) (lines 109-110).
topThree == SubSeq(users, 1, Min(3, Len(users)))
\* A faulty variant of rest: users.slice(2), an off-by-one start.
restFromTwo == SubSeq(users, 3, Len(users))
rest == SubSeq(users, 4, Len(users))

\* Array.prototype.indexOf: 0-based position of the first equal element, -1
\* when there is none.
indexOf(s, u) ==
    IF \E i \in DOMAIN s : s[i] = u
    THEN (CHOOSE i \in DOMAIN s : s[i] = u /\ \A j \in 1..(i - 1) : s[j] # u) - 1
    ELSE -1

\* const rank = users.indexOf(user) + 1 (lines 164 and 198).
rank(user) == indexOf(users, user) + 1

\* The ranks rendered, podium first and then the rest (lines 161-221).
displayed == topThree \o rest
displayedRanks == [i \in DOMAIN displayed |-> rank(displayed[i])]

\* ------------------------------------------------------------------ Init
Start(b) ==
    /\ budget = b
    /\ participants = << [username |-> <<"A">>, totalPoints |-> 0],
                         [username |-> <<"B">>, totalPoints |-> 0] >>
    /\ ledger = <<>>
    /\ okClaims = 0
    /\ http = EmptyBag
    /\ pushQ = <<>>
    /\ sock = "none"
    /\ sockFailed = FALSE
    /\ users = <<>>
    /\ selectedUserId = NoUser
    /\ newUserName = <<>>
    /\ message = NoMessage
    /\ loading = FALSE
    /\ error = ""
    /\ claimHistory = <<>>
    /\ mounted = FALSE
    /\ timers = 0
    /\ clicks = 0
    /\ faults = 0

\* ------------------------------------------------------- client, actions
\* The mount effect (lines 27-43): fetchUsers(), fetchClaimHistory(), a new
\* socket with its two handlers.  index.jsx renders App under React.StrictMode:
\* a development build runs the effect, its cleanup (socket.disconnect()) and
\* the effect again in one commit, a production build runs it once.  fetchUsers
\* (lines 46-49) sets loading, clears error and sends GET /users; its
\* continuation closes over the selectedUserId of the render that called it.
Mount(strict) ==
    /\ ~mounted
    /\ mounted' = TRUE
    /\ loading' = TRUE
    /\ error' = ""
    /\ LET once == Send(Send(http, Req("getUsers", selectedUserId, <<>>)),
                        Req("getHistory", NoUser, <<>>))
       IN http' = IF strict
                  THEN Send(Send(once, Req("getUsers", selectedUserId, <<>>)),
                            Req("getHistory", NoUser, <<>>))
                  ELSE once
    /\ sock' = "connecting"
    /\ UNCHANGED <<budgetVars, engineVars, pushQ, sockFailed, users, selectedUserId,
                   newUserName, message, claimHistory, timers>>

\* fetchUsers after its await (lines 50-57).
fetchUsersDone(m) ==
    /\ m \in InFlight(http) /\ m.kind = "getUsers" /\ m.phase # "sent"
    /\ http' = Take(http, m)
    /\ IF m.phase = "ok"
       THEN /\ users' = m.users
            /\ selectedUserId' =
                   IF Len(m.users) > 0 /\ m.userId = NoUser
                   THEN m.users[1]._id ELSE selectedUserId
            /\ error' = error
       ELSE /\ error' = "Failed to fetch users."
            /\ UNCHANGED <<users, selectedUserId>>
    /\ loading' = FALSE
    /\ UNCHANGED <<budgetVars, engineVars, pushQ, sock, sockFailed, newUserName, message,
                   claimHistory, mounted, timers>>

\* fetchClaimHistory after its await (lines 63-66); a failure is only logged.
fetchClaimHistoryDone(m) ==
    /\ m \in InFlight(http) /\ m.kind = "getHistory" /\ m.phase # "sent"
    /\ http' = Take(http, m)
    /\ claimHistory' = IF m.phase = "ok" THEN m.history ELSE claimHistory
    /\ UNCHANGED <<budgetVars, engineVars, pushQ, sock, sockFailed, users, selectedUserId,
                   newUserName, message, loading, error, mounted, timers>>

\* A faulty variant of handleAddUser: the emptiness test without trim().
handleAddUserNoTrim ==
    /\ mounted /\ ~loading
    /\ IF newUserName = <<>>
       THEN /\ error' = "User name cannot be empty."
            /\ UNCHANGED <<loading, http>>
       ELSE /\ loading' = TRUE
            /\ error' = ""
            /\ http' = Send(http, Req("postUser", NoUser, newUserName))
    /\ clicks < budget.clicks
    /\ clicks' = clicks + 1
    /\ UNCHANGED <<faults, budget, engineVars, pushQ, sock, sockFailed, users,
                   selectedUserId, newUserName, message, claimHistory, mounted,
                   timers>>

\* The Add User button (line 132, disabled while loading) and handleAddUser up
\* to its await (lines 69-79).
handleAddUser ==
    /\ mounted /\ ~loading
    /\ IF trim(newUserName) = <<>>
       THEN /\ error' = "User name cannot be empty."
            /\ UNCHANGED <<loading, http>>
       ELSE /\ loading' = TRUE
            /\ error' = ""
            /\ http' = Send(http, Req("postUser", NoUser, newUserName))
    /\ clicks < budget.clicks
    /\ clicks' = clicks + 1
    /\ UNCHANGED <<faults, budget, engineVars, pushQ, sock, sockFailed, users, selectedUserId,
                   newUserName, message, claimHistory, mounted, timers>>

\* handleAddUser after its await (lines 80-86).
handleAddUserDone(m) ==
    /\ m \in InFlight(http) /\ m.kind = "postUser" /\ m.phase # "sent"
    /\ http' = Take(http, m)
    /\ IF m.phase = "ok"
       THEN /\ message' = Msg("Added", m.username)
            /\ newUserName' = <<>>
            /\ error' = error
       ELSE /\ error' = IF m.msg # "" THEN m.msg ELSE "Failed to add user."
            /\ UNCHANGED <<message, newUserName>>
    /\ loading' = FALSE
    /\ UNCHANGED <<budgetVars, engineVars, pushQ, sock, sockFailed, users, selectedUserId,
                   claimHistory, mounted, timers>>

\* The Claim Points button (lines 147-152, disabled while loading or with no
\* user selected) and handleClaimPoints up to its await (lines 89-99).
handleClaimPoints ==
    /\ mounted /\ ~(loading \/ selectedUserId = NoUser)
    /\ IF selectedUserId = NoUser
       THEN /\ error' = "Please select a user."
            /\ UNCHANGED <<loading, http>>
       ELSE /\ loading' = TRUE
            /\ error' = ""
            /\ http' = Send(http, Req("postClaim", selectedUserId, <<>>))
    /\ clicks < budget.clicks
    /\ clicks' = clicks + 1
    /\ UNCHANGED <<faults, budget, engineVars, pushQ, sock, sockFailed, users, selectedUserId,
                   newUserName, message, claimHistory, mounted, timers>>

\* A faulty variant of handleClaimPointsDone: fetchClaimHistory() called in the finally
\* block, so also after a rejected POST.
handleClaimPointsDoneRefetch(m) ==
    /\ m \in InFlight(http) /\ m.kind = "postClaim" /\ m.phase # "sent"
    /\ http' = Send(Take(http, m), Req("getHistory", NoUser, <<>>))
    /\ IF m.phase = "ok"
       THEN /\ message' = Msg(m.msg, <<>>)
            /\ error' = error
       ELSE /\ error' = IF m.msg # "" THEN m.msg ELSE "Failed to claim points."
            /\ message' = message
    /\ loading' = FALSE
    /\ UNCHANGED <<budgetVars, engineVars, pushQ, sock, sockFailed, users,
                   selectedUserId, newUserName, claimHistory, mounted, timers>>

\* handleClaimPoints after its await (lines 100-106): on success the message
\* is shown and fetchClaimHistory() is started without being awaited.
handleClaimPointsDone(m) ==
    /\ m \in InFlight(http) /\ m.kind = "postClaim" /\ m.phase # "sent"
    /\ IF m.phase = "ok"
       THEN /\ message' = Msg(m.msg, <<>>)
            /\ http' = Send(Take(http, m), Req("getHistory", NoUser, <<>>))
            /\ error' = error
       ELSE /\ error' = IF m.msg # "" THEN m.msg ELSE "Failed to claim points."
            /\ http' = Take(http, m)
            /\ message' = message
    /\ loading' = FALSE
    /\ UNCHANGED <<budgetVars, engineVars, pushQ, sock, sockFailed, users, selectedUserId,
                   newUserName, claimHistory, mounted, timers>>

\* socket.on("leaderboard_update", ...) (lines 33-37).
onLeaderboardUpdate ==
    /\ sock = "connected" /\ pushQ # <<>>
    /\ users' = Head(pushQ)
    /\ pushQ' = Tail(pushQ)
    /\ message' = Msg("Leaderboard updated!", <<>>)
    /\ timers' = timers + 1
    /\ UNCHANGED <<budgetVars, engineVars, http, sock, sockFailed, selectedUserId,
                   newUserName, loading, error, claimHistory, mounted>>

\* The setTimeout callback of line 36.
messageTimeout ==
    /\ timers > 0
    /\ timers' = timers - 1
    /\ message' = NoMessage
    /\ UNCHANGED <<budgetVars, engineVars, http, pushQ, sock, sockFailed, users,
                   selectedUserId, newUserName, loading, error, claimHistory,
                   mounted>>

\* socket.on("connect_error", ...) (lines 38-41): a connection attempt failed;
\* socket.io keeps retrying.
onConnectError ==
    /\ sock = "connecting"
    /\ error' = "Could not connect to real-time updates. Please check backend."
    /\ sockFailed' = TRUE
    /\ faults < budget.faults
    /\ faults' = faults + 1
    /\ UNCHANGED <<clicks, budget, engineVars, http, pushQ, sock, users, selectedUserId,
                   newUserName, message, loading, claimHistory, mounted, timers>>

\* The socket (re)connects; App registers no "connect" handler (lines 32-42),
\* so nothing of the React state changes.
socketConnect ==
    /\ sock = "connecting"
    /\ sock' = "connected"
    /\ UNCHANGED <<budgetVars, engineVars, http, pushQ, sockFailed, reactVars, mounted>>

\* The connection drops; App registers no "disconnect" handler.  Events in
\* flight are lost and socket.io starts reconnecting.
socketDisconnect ==
    /\ sock = "connected"
    /\ sock' = "connecting"
    /\ sockFailed' = TRUE
    /\ pushQ' = <<>>
    /\ faults < budget.faults
    /\ faults' = faults + 1
    /\ UNCHANGED <<clicks, budget, engineVars, http, reactVars, mounted>>

\* onChange of the name input (line 129).
setNewUserName(n) ==
    /\ mounted /\ n # newUserName
    /\ newUserName' = n
    /\ UNCHANGED <<budgetVars, engineVars, http, pushQ, sock, sockFailed, users,
                   selectedUserId, message, loading, error, claimHistory,
                   mounted, timers>>

\* onValueChange of the Select, whose items are the users held (lines 135-146).
setSelectedUserId(i) ==
    /\ mounted /\ i \in DOMAIN users /\ users[i]._id # selectedUserId
    /\ selectedUserId' = users[i]._id
    /\ UNCHANGED <<budgetVars, engineVars, http, pushQ, sock, sockFailed, users,
                   newUserName, message, loading, error, claimHistory,
                   mounted, timers>>

\* ------------------------------------------------------- engine, actions
\* Engine mutations committed since Init.
Mutations == Len(ledger) + (Len(participants) - 2)

\* GET /users answered with getSnapshot().
serveUsers(m) ==
    /\ m \in InFlight(http) /\ m.kind = "getUsers" /\ m.phase = "sent"
    /\ http' = Send(Take(http, m), [m EXCEPT !.phase = "ok", !.users = getSnapshot])
    /\ UNCHANGED <<budgetVars, engineVars, pushQ, sock, sockFailed, reactVars, mounted>>

\* GET /claims/history answered with history().
serveHistory(m) ==
    /\ m \in InFlight(http) /\ m.kind = "getHistory" /\ m.phase = "sent"
    /\ http' = Send(Take(http, m), [m EXCEPT !.phase = "ok", !.history = history])
    /\ UNCHANGED <<budgetVars, engineVars, pushQ, sock, sockFailed, reactVars, mounted>>

\* POST /users of this client: registerParticipant, then publish.
serveAddUser(m) ==
    /\ m \in InFlight(http) /\ m.kind = "postUser" /\ m.phase = "sent"
    /\ LET r == registerParticipant(participants, m.username)
       IN IF r.err # ""
          THEN /\ http' = Send(Take(http, m),
                               [m EXCEPT !.phase = "err", !.msg = r.err])
               /\ UNCHANGED <<participants, pushQ>>
          ELSE /\ Mutations < budget.mutations
               /\ participants' = r.participants
               /\ pushQ' = publish(r.participants)
               /\ http' = Send(Take(http, m), [m EXCEPT !.phase = "ok"])
    /\ UNCHANGED <<budgetVars, ledger, okClaims, sock, sockFailed, reactVars, mounted>>

\* POST /claims of this client: claim, then publish.
serveClaim(m, pts) ==
    /\ m \in InFlight(http) /\ m.kind = "postClaim" /\ m.phase = "sent"
    /\ LET r == claim(participants, ledger, m.userId, pts)
       IN IF r.err # ""
          THEN /\ http' = Send(Take(http, m),
                               [m EXCEPT !.phase = "err", !.msg = r.err])
               /\ UNCHANGED <<participants, ledger, okClaims, pushQ>>
          ELSE /\ Mutations < budget.mutations
               /\ participants' = r.participants
               /\ ledger' = r.ledger
               /\ okClaims' = okClaims + 1
               /\ pushQ' = publish(r.participants)
               /\ http' = Send(Take(http, m),
                               [m EXCEPT !.phase = "ok", !.msg = "claimed"])
    /\ UNCHANGED <<budgetVars, sock, sockFailed, reactVars, mounted>>

\* A request of this client fails in transport: axios rejects with no response.
failRequest(m) ==
    /\ m \in InFlight(http) /\ m.phase = "sent"
    /\ http' = Send(Take(http, m), [m EXCEPT !.phase = "err"])
    /\ faults < budget.faults
    /\ faults' = faults + 1
    /\ UNCHANGED <<clicks, budget, engineVars, pushQ, sock, sockFailed, reactVars, mounted>>

\* registerParticipant called by another client.
otherAddUser(n) ==
    /\ LET r == registerParticipant(participants, n)
       IN IF r.err # ""
          THEN UNCHANGED <<participants, pushQ>>
          ELSE /\ Mutations < budget.mutations
               /\ participants' = r.participants
               /\ pushQ' = publish(r.participants)
    /\ UNCHANGED <<budgetVars, ledger, okClaims, http, sock, sockFailed, reactVars, mounted>>

\* claim called by another client, on any identifier.
otherClaim(id, pts) ==
    /\ LET r == claim(participants, ledger, id, pts)
       IN IF r.err # ""
          THEN UNCHANGED <<participants, ledger, okClaims, pushQ>>
          ELSE /\ Mutations < budget.mutations
               /\ participants' = r.participants
               /\ ledger' = r.ledger
               /\ okClaims' = okClaims + 1
               /\ pushQ' = publish(r.participants)
    /\ UNCHANGED <<budgetVars, http, sock, sockFailed, reactVars, mounted>>

\* -------------------------------------------------------- specifications
Budget(m, k, f) == [mutations |-> m, clicks |-> k, faults |-> f]

MaxMutations == 1
MaxClicks == 1
MaxFaults == 1

\* Identifiers other clients claim on: every participant and one unknown.
ClaimIds == 1..(Len(participants) + 1)

\* The whole system: this client, the engine, other clients, failures.
Init == Start(Budget(MaxMutations, MaxClicks, MaxFaults))

Next ==
    \/ \E strict \in BOOLEAN : Mount(strict)
    \/ \E m \in InFlight(http) : fetchUsersDone(m)
    \/ \E m \in InFlight(http) : fetchClaimHistoryDone(m)
    \/ handleAddUser
    \/ \E m \in InFlight(http) : handleAddUserDone(m)
    \/ handleClaimPoints
    \/ \E m \in InFlight(http) : handleClaimPointsDone(m)
    \/ onLeaderboardUpdate
    \/ messageTimeout
    \/ onConnectError
    \/ socketConnect
    \/ socketDisconnect
    \/ \E n \in Names : setNewUserName(n)
    \/ \E i \in DOMAIN users : setSelectedUserId(i)
    \/ \E m \in InFlight(http) : serveUsers(m)
    \/ \E m \in InFlight(http) : serveHistory(m)
    \/ \E m \in InFlight(http) : serveAddUser(m)
    \/ \E m \in InFlight(http), pts \in Awards : serveClaim(m, pts)
    \/ \E m \in InFlight(http) : failRequest(m)
    \/ \E n \in OtherNames : otherAddUser(n)
    \/ \E id \in ClaimIds, pts \in Awards : otherClaim(id, pts)

Spec == Init /\ [][Next]_vars

\* The engine alone, called by any number of clients.
MaxEngineOps == 4

InitEngine == Start(Budget(MaxEngineOps, 0, 0))

NextEngine ==
    \/ \E n \in OtherNames : otherAddUser(n)
    \/ \E id \in ClaimIds, pts \in Awards : otherClaim(id, pts)

SpecEngine == InitEngine /\ [][NextEngine]_vars

\* Registration: this client's Add User flow next to other clients
\* registering, with the pull and the push of the ranking.
MaxAddMutations == 1
MaxAddClicks == 2
MaxAddFaults == 1

InitAddUser == Start(Budget(MaxAddMutations, MaxAddClicks, MaxAddFaults))

NextAddUser ==
    \/ \E strict \in BOOLEAN : Mount(strict)
    \/ \E m \in InFlight(http) : fetchUsersDone(m)
    \/ \E m \in InFlight(http) : fetchClaimHistoryDone(m)
    \/ handleAddUser
    \/ \E m \in InFlight(http) : handleAddUserDone(m)
    \/ onLeaderboardUpdate
    \/ messageTimeout
    \/ socketConnect
    \/ \E n \in Names : setNewUserName(n)
    \/ \E m \in InFlight(http) : serveUsers(m)
    \/ \E m \in InFlight(http) : serveHistory(m)
    \/ \E m \in InFlight(http) : serveAddUser(m)
    \/ \E m \in InFlight(http) : failRequest(m)
    \/ \E n \in OtherNames : otherAddUser(n)

SpecAddUser == InitAddUser /\ [][NextAddUser]_vars

\* Claiming: this client's Claim Points flow next to other clients claiming,
\* in a production build (the effect runs once).
MaxClaimMutations == 1
MaxClaimClicks == 2
MaxClaimFaults == 1

InitClaim == Start(Budget(MaxClaimMutations, MaxClaimClicks, MaxClaimFaults))

NextClaim ==
    \/ Mount(FALSE)
    \/ \E m \in InFlight(http) : fetchUsersDone(m)
    \/ \E m \in InFlight(http) : fetchClaimHistoryDone(m)
    \/ handleClaimPoints
    \/ \E m \in InFlight(http) : handleClaimPointsDone(m)
    \/ \E i \in DOMAIN users : setSelectedUserId(i)
    \/ \E m \in InFlight(http) : serveUsers(m)
    \/ \E m \in InFlight(http) : serveHistory(m)
    \/ \E m \in InFlight(http), pts \in Awards : serveClaim(m, pts)
    \/ \E m \in InFlight(http) : failRequest(m)
    \/ \E id \in ClaimIds, pts \in Awards : otherClaim(id, pts)

SpecClaim == InitClaim /\ [][NextClaim]_vars

\* Ranking: the snapshots this client pulls and is pushed while other clients
\* register and claim.
MaxRankMutations == 2

InitRanking == Start(Budget(MaxRankMutations, 0, 0))

NextRanking ==
    \/ \E strict \in BOOLEAN : Mount(strict)
    \/ \E m \in InFlight(http) : fetchUsersDone(m)
    \/ onLeaderboardUpdate
    \/ messageTimeout
    \/ socketConnect
    \/ \E i \in DOMAIN users : setSelectedUserId(i)
    \/ \E m \in InFlight(http) : serveUsers(m)
    \/ \E n \in OtherNames : otherAddUser(n)
    \/ \E id \in ClaimIds, pts \in Awards : otherClaim(id, pts)

SpecRanking == InitRanking /\ [][NextRanking]_vars

\* ----------------------------------------------------------------- claims
RECURSIVE SumPoints(_)
SumPoints(us) ==
    IF us = <<>> THEN 0 ELSE Head(us).totalPoints + SumPoints(Tail(us))

\* The total of participant p in a snapshot; 0 when the snapshot lacks p.
RECURSIVE PointsIn(_, _)
PointsIn(us, p) ==
    IF us = <<>> THEN 0
    ELSE IF Head(us)._id = p THEN Head(us).totalPoints
    ELSE PointsIn(Tail(us), p)

\* The points of the ClaimRecords of participant p in a list of records.
RECURSIVE ClaimedIn(_, _)
ClaimedIn(rs, p) ==
    IF rs = <<>> THEN 0
    ELSE (IF Head(rs).userId = p THEN Head(rs).pointsClaimed ELSE 0)
         + ClaimedIn(Tail(rs), p)

Outstanding(kinds) == \E m \in InFlight(http) : m.kind \in kinds

\* C1: the snapshot held in users never goes backwards.  Every claim awards
\* a positive number of points and totals start at 0, so the sum of the totals
\* of a snapshot grows strictly with the ledger sequence it reflects: applying
\* a snapshot that reflects fewer committed claims lowers that sum.
C1_NeverBackwards == [][SumPoints(users') >= SumPoints(users)]_vars

\* C2: after any sequence of claims (and no registration), once the initial
\* fetch and every push have been delivered over a subscription that never
\* failed, with no request outstanding and no transport failure, users equals
\* what a fresh getSnapshot() returns.
C2_NoLostUpdate ==
    (mounted /\ http = EmptyBag /\ pushQ = <<>> /\ sock = "connected"
        /\ ~sockFailed /\ faults = 0 /\ Len(participants) = 2)
    => users = getSnapshot

\* C3: the pair (users, claimHistory) is consistent: each participant's total
\* in users is the sum of the points of its records in claimHistory.
C3_TotalsMatchRecords ==
    \A p \in DOMAIN participants :
        PointsIn(users, p) = ClaimedIn(claimHistory, p)

\* C4: conservation law.  In every committed state each participant's total
\* is the sum of the points of its committed ClaimRecords (totals start at 0),
\* the ledger holds one record per successful claim call, and the sequence
\* numbers are 1, 2, ... without gaps.
C4_Conservation ==
    /\ \A p \in DOMAIN participants :
           participants[p].totalPoints = ClaimedIn(ledger, p)
    /\ Len(ledger) = okClaims
    /\ \A i \in DOMAIN ledger :
           ledger[i]._id = i /\ ledger[i].userId \in DOMAIN participants
                             /\ ledger[i].pointsClaimed \in Awards

\* C4 witness: two claims committed on the same participant.
C4_Witness ==
    \E i, j \in DOMAIN ledger : i < j /\ ledger[i].userId = ledger[j].userId

\* C5: a claim on an unknown participant identifier mutates nothing in the
\* engine, and a rejected POST /claims only sets error (the server message or
\* "Failed to claim points.") and resets loading: users, claimHistory and
\* selectedUserId are unchanged and no history refetch is issued.
C5_RejectedClaimMutatesNothing ==
    [][ /\ (\E pts \in Awards : otherClaim(Len(participants) + 1, pts))
           => /\ claim(participants, ledger, Len(participants) + 1, 1).err
                     = "NotFoundError"
              /\ UNCHANGED <<participants, ledger, okClaims, pushQ>>
        /\ \A m \in InFlight(http) :
              (m.kind = "postClaim" /\ m.phase = "err"
                  /\ handleClaimPointsDone(m))
              => /\ error' = (IF m.msg # "" THEN m.msg
                              ELSE "Failed to claim points.")
                 /\ loading' = FALSE
                 /\ UNCHANGED <<users, claimHistory, selectedUserId>>
                 /\ Count(http', "getHistory") = Count(http, "getHistory")
                 /\ Count(http', "postClaim") = Count(http, "postClaim") - 1
      ]_vars

\* C5 witness: a POST /claims of this client was rejected and handled.
C5_Witness ==
    /\ error = "Failed to claim points."
    /\ ~loading
    /\ ~Outstanding({"postClaim"})
    /\ selectedUserId # NoUser

\* C6: handleAddUser with an empty or whitespace-only name sets error to
\* "User name cannot be empty." and changes nothing else: no POST /users is
\* issued, no participant is created; and every POST /users issued and every
\* participant registered carries a non-empty name.
C6_BlankNameRejected ==
    [][ /\ (handleAddUser /\ trim(newUserName) = <<>>)
           => /\ error' = "User name cannot be empty."
              /\ UNCHANGED <<http, participants, users, claimHistory,
                             selectedUserId, newUserName, loading>>
        /\ \A m \in InFlight(http') :
              m.kind = "postUser" => trim(m.username) # <<>>
        /\ \A p \in DOMAIN participants' : participants'[p].username # <<>>
      ]_vars

\* C6 witness: the whitespace-only name was submitted and refused, and a
\* participant was registered through this client.
C6_Witness ==
    /\ error = "User name cannot be empty."
    /\ newUserName = <<" ">>
    /\ \E p \in DOMAIN participants : participants[p].username = <<"C", " ">>

\* C7: a failed subscription becomes active again only with a fresh full
\* snapshot being pulled: the step that reconnects a failed socket issues a
\* GET /users.
C7_ResubscribePullsSnapshot ==
    [][ (sockFailed /\ sock = "connecting" /\ sock' = "connected")
        => Count(http', "getUsers") > Count(http, "getUsers") ]_vars

\* A sequence is sorted by total points descending, ties by earliest
\* registration: a strict total order.
Sorted(us) ==
    \A i, j \in DOMAIN us : i < j => (Before(us[i], us[j]) /\ ~Before(us[j], us[i]))

\* C8: every snapshot held is a strict total order by points descending and
\* registration ascending, the podium and the rest show each participant once,
\* and the ranks shown are 1..n in that order; A, B, C with claim(A) = 10 and
\* claim(B) = 20 rank as [B:20, A:10, C:0].
C8_RanksAreOrder ==
    /\ Sorted(users)
    /\ displayed = users
    /\ displayedRanks = [i \in 1..Len(users) |-> i]
    /\ SnapshotOf(<< [username |-> <<"A">>, totalPoints |-> 10],
                     [username |-> <<"B">>, totalPoints |-> 20],
                     [username |-> <<"C">>, totalPoints |-> 0] >>)
         = << [_id |-> 2, username |-> <<"B">>, totalPoints |-> 20],
              [_id |-> 1, username |-> <<"A">>, totalPoints |-> 10],
              [_id |-> 3, username |-> <<"C">>, totalPoints |-> 0] >>

\* C8 witness: three participants held, reordered by a claim, the last
\* registered one ranked third.
C8_Witness ==
    /\ Len(users) = 3
    /\ users[1]._id = 2 /\ users[1].totalPoints > 0
    /\ rank(users[3]) = 3

\* C9: a ClaimRecord that has appeared in claimHistory is in every later
\* claimHistory.
C9_HistoryAppendOnly ==
    [][ \A i \in DOMAIN claimHistory :
            \E j \in DOMAIN claimHistory' : claimHistory'[j] = claimHistory[i]
      ]_vars

\* C10: loading is true while a fetchUsers, add-user or claim request of this
\* client is outstanding, and at most one mutating request is in flight.
C10_LoadingCoversRequests ==
    /\ Outstanding({"getUsers", "postUser", "postClaim"}) => loading
    /\ Count(http, "postUser") + Count(http, "postClaim") <= 1

====
